---- MODULE Spec2Model ----
(***************************************************************************)
(* Model of the bookkeeping handlers of goreportcard                       *)
(* (handlers/bookkeeping.go, the ledger handler that follows it in the     *)
(* same file, and the second revision of bookkeeping.go kept as            *)
(* unnamed/part_000).                                                      *)
(*                                                                         *)
(*  - calculateSummary is a pure function: it is an operator, folded left  *)
(*    to right over the list as the code's range loop does, and is checked *)
(*    under SpecSummary, whose Init draws the transaction list.            *)
(*  - The four HTTP handlers are actions over the file system (the vault   *)
(*    directory, the ledger snapshot files), the process environment       *)
(*    (working directory, VAULT_DIR, LEDGER_DIR) and a bounded set of      *)
(*    requests in flight; they are checked under Spec.                     *)
(*                                                                         *)
(* float64 is modelled as a binary floating-point format with a            *)
(* significand of Precision bits over a unit of 1/Scale, rounded to        *)
(* nearest, ties to even, after every conversion and every addition.       *)
(* Amount strings are sequences of one-character strings, scanned as       *)
(* fmt.Sscanf(s, "%f", &amount) scans them.                                *)
(***************************************************************************)
EXTENDS Integers, Sequences, FiniteSets, TLC

VARIABLES
    build,          \* which revision of bookkeeping.go is compiled in
    transactions,   \* the argument of calculateSummary
    stats,          \* the SummaryStats it returned
    pc,             \* "call" before calculateSummary ran, "done" after
    cwd,            \* the process's working directory
    env,            \* the process environment: name -> value
    vault,          \* the vault directory: its status and the rows of its CSV files
    fs,             \* the ledger snapshot files: absolute path -> content
    reqs,           \* the POST requests inside vault.Run: slot -> request
    last,           \* the request answered last, with its response
    lastRun         \* the ledger directory of the last successful vault.Run, or <<>>

vars == <<build, transactions, stats, pc, cwd, env, vault, fs, reqs, last, lastRun>>

summaryVars == <<transactions, stats, pc>>
handlerVars == <<cwd, env, vault, fs, reqs, last, lastRun>>

(***************************************************************************)
(* Bounds of the model.                                                    *)
(***************************************************************************)
MaxTxns == 3        \* longest transaction list passed to calculateSummary
Precision == 8      \* bits of the modelled float's significand (float64: 53)
FracDigits == 2     \* the float unit is 10^-FracDigits
MaxReqs == 2        \* requests inside vault.Run at once
MaxVault == 2       \* longest transaction list a vault holds

Builds == {"bookkeeping.go", "part_000"}

(***************************************************************************)
(* float64                                                                 *)
(***************************************************************************)
RECURSIVE Pow(_, _)
Pow(b, k) == IF k <= 0 THEN 1 ELSE b * Pow(b, k - 1)

Scale == Pow(10, FracDigits)

AbsInt(x) == IF x < 0 THEN 0 - x ELSE x

RECURSIVE BitLen(_)
BitLen(n) == IF n <= 0 THEN 0 ELSE 1 + BitLen(n \div 2)

\* |x| = q * d + r divided by d and rounded to nearest, ties to even, with
\* the sign of x.
RoundQuotient(x, q, r, d) ==
    IF (2 * r > d) \/ (2 * r = d /\ q % 2 = 1)
    THEN (IF x < 0 THEN 0 - (q + 1) ELSE q + 1)
    ELSE (IF x < 0 THEN 0 - q ELSE q)

\* x divided by d (d > 0), rounded to nearest, ties to even.
DivRoundEven(x, d) == RoundQuotient(x, AbsInt(x) \div d, AbsInt(x) % d, d)

\* x rounded to a multiple of ulp, its unit in the last place.
RoundToUlp(x, ulp) == DivRoundEven(x, ulp) * ulp

\* x, whose magnitude has bl bits, rounded to Precision significant bits.
RoundBits(x, bl) == IF bl <= Precision THEN x ELSE RoundToUlp(x, Pow(2, bl - Precision))

\* The float nearest to the real number x/Scale: x is kept when it fits the
\* significand, and is rounded to a multiple of its unit in the last place
\* otherwise.
FRound(x) == RoundBits(x, BitLen(AbsInt(x)))

\* a + b on float64.
fadd(a, b) == FRound(a + b)

(***************************************************************************)
(* fmt.Sscanf(s, "%f", &amount)                                            *)
(***************************************************************************)
Digits == {"0", "1", "2", "3", "4", "5", "6", "7", "8", "9"}
Sign == {"+", "-"}
Exponent == {"e", "E", "p", "P"}
Space == {" "}

DigitVal(c) ==
    CASE c = "0" -> 0 [] c = "1" -> 1 [] c = "2" -> 2 [] c = "3" -> 3
      [] c = "4" -> 4 [] c = "5" -> 5 [] c = "6" -> 6 [] c = "7" -> 7
      [] c = "8" -> 8 [] c = "9" -> 9

\* The first index from i on whose character is not in cs (Len(s) + 1 if none).
RECURSIVE AcceptWhile(_, _, _)
AcceptWhile(s, i, cs) ==
    IF i <= Len(s) /\ s[i] \in cs THEN AcceptWhile(s, i + 1, cs) ELSE i

\* One character of cs at i, if there: the index after it.
Accept(s, i, cs) == IF i <= Len(s) /\ s[i] \in cs THEN i + 1 ELSE i

RECURSIVE DigitsVal(_)
DigitsVal(ds) ==
    IF ds = <<>> THEN 0
    ELSE 10 * DigitsVal(SubSeq(ds, 1, Len(ds) - 1)) + DigitVal(ds[Len(ds)])

\* The token the scanner reads for %f: leading spaces skipped, then
\* [sign] digits [. digits] [exponent [sign] digits]; the input after the
\* token is left unread.  Each step takes the position the one before it
\* reached; the token is returned as its parts.
tokenExp(s, tok, i3, ex, es) ==
    [ tok EXCEPT
        !.stop    = IF ex > i3 THEN AcceptWhile(s, es, Digits) ELSE i3,
        !.hasExp  = ex > i3,
        !.expChar = IF ex > i3 THEN s[i3] ELSE "",
        !.expNeg  = ex > i3 /\ es > ex /\ s[ex] = "-",
        !.exp     = IF ex > i3 THEN SubSeq(s, es, AcceptWhile(s, es, Digits) - 1)
                    ELSE <<>> ]

tokenExpSign(s, tok, i3, ex) ==
    tokenExp(s, tok, i3, ex, IF ex > i3 THEN Accept(s, ex, Sign) ELSE i3)

tokenFrac(s, tok, i2, dot, i3) ==
    tokenExpSign(s, [tok EXCEPT !.frac = IF dot > i2 THEN SubSeq(s, dot, i3 - 1) ELSE <<>>],
                 i3, Accept(s, i3, Exponent))

tokenDot(s, tok, i2, dot) ==
    tokenFrac(s, tok, i2, dot, IF dot > i2 THEN AcceptWhile(s, dot, Digits) ELSE i2)

tokenInt(s, tok, i1, i2) ==
    tokenDot(s, [tok EXCEPT !.int = SubSeq(s, i1, i2 - 1)], i2, Accept(s, i2, {"."}))

tokenSign(s, start, i1) ==
    tokenInt(s, [ start |-> start, stop |-> start,
                  neg |-> i1 > start /\ s[start] = "-", int |-> <<>>, frac |-> <<>>,
                  hasExp |-> FALSE, expChar |-> "", expNeg |-> FALSE, exp |-> <<>> ],
             i1, AcceptWhile(s, i1, Digits))

tokenStart(s, start) == tokenSign(s, start, Accept(s, start, Sign))

floatToken(s) == tokenStart(s, AcceptWhile(s, 1, Space))

\* strconv.ParseFloat on the token: it needs a digit in the mantissa and, after
\* an exponent character, a decimal exponent (e or E) with a digit.
TokenValid(t) ==
    /\ Len(t.int) + Len(t.frac) > 0
    /\ t.hasExp => (t.expChar \in {"e", "E"} /\ Len(t.exp) > 0)

\* mant * 10^e in units of 1/Scale (e counts from the unit), rounded to a float.
ScaledValue(neg, mant, e) ==
    FRound((IF neg THEN 0 - 1 ELSE 1) *
           (IF e >= 0 THEN mant * Pow(10, e) ELSE DivRoundEven(mant, Pow(10, 0 - e))))

\* The token's value.
TokenValue(t) ==
    ScaledValue(t.neg, DigitsVal(t.int \o t.frac),
                (IF t.expNeg THEN 0 - DigitsVal(t.exp) ELSE DigitsVal(t.exp))
                    - Len(t.frac) + FracDigits)

\* What Sscanf returns for the token it read.
scanResult(t) ==
    IF TokenValid(t)
    THEN [n |-> 1, err |-> FALSE, stored |-> TRUE, amount |-> TokenValue(t)]
    ELSE [n |-> 0, err |-> TRUE, stored |-> FALSE, amount |-> 0]

\* n, err := fmt.Sscanf(s, "%f", &amount): n = 1 and the value stored when the
\* token converts, n = 0 and an error (amount not written) when it does not.
Sscanf(s) == scanResult(floatToken(s))

(***************************************************************************)
(* vault.Transaction, SummaryStats, calculateSummary                       *)
(***************************************************************************)
PaymentTransaction == "Payment"
TransferTransaction == "Transfer"
FeeTransaction == "Fee"

TransactionTypes == {PaymentTransaction, TransferTransaction, FeeTransaction}

ZeroStats ==
    [ TotalTransactions |-> 0, TotalPayments |-> 0, TotalTransfers |-> 0,
      TotalFees |-> 0, PaymentsSum |-> 0, TransfersSum |-> 0, FeesSum |-> 0,
      NetLiquidity |-> 0 ]

\* The amount one loop iteration works with, from what Sscanf returned.
\* bookkeeping.go checks Sscanf's results and resets amount to 0.0; part_000
\* ignores them and keeps what the freshly declared (zero) variable holds
\* after the call.
amountAfterScan(b, r) ==
    IF b = "bookkeeping.go"
    THEN (IF r.err \/ r.n # 1 THEN 0 ELSE r.amount)
    ELSE (IF r.stored THEN r.amount ELSE 0)

parseAmount(b, txn) == amountAfterScan(b, Sscanf(txn.Amount))

\* Faulty variant of switchType: the fee case adds the amount and forgets the count.
switchType_noFeeCount(s, type, amount) ==
    CASE type = PaymentTransaction ->
            [s EXCEPT !.TotalPayments = @ + 1, !.PaymentsSum = fadd(@, amount)]
      [] type = TransferTransaction ->
            [s EXCEPT !.TotalTransfers = @ + 1, !.TransfersSum = fadd(@, amount)]
      [] type = FeeTransaction ->
            [s EXCEPT !.FeesSum = fadd(@, amount)]
      [] OTHER -> s

\* Faulty variant of switchType: the transfer case adds its amount to PaymentsSum.
switchType_transferIntoPayments(s, type, amount) ==
    CASE type = PaymentTransaction ->
            [s EXCEPT !.TotalPayments = @ + 1, !.PaymentsSum = fadd(@, amount)]
      [] type = TransferTransaction ->
            [s EXCEPT !.TotalTransfers = @ + 1, !.PaymentsSum = fadd(@, amount)]
      [] type = FeeTransaction ->
            [s EXCEPT !.TotalFees = @ + 1, !.FeesSum = fadd(@, amount)]
      [] OTHER -> s

\* The switch on txn.Type: it has no default.
switchType(s, type, amount) ==
    CASE type = PaymentTransaction ->
            [s EXCEPT !.TotalPayments = @ + 1, !.PaymentsSum = fadd(@, amount)]
      [] type = TransferTransaction ->
            [s EXCEPT !.TotalTransfers = @ + 1, !.TransfersSum = fadd(@, amount)]
      [] type = FeeTransaction ->
            [s EXCEPT !.TotalFees = @ + 1, !.FeesSum = fadd(@, amount)]
      [] OTHER -> s

\* The body of the range loop.
Accumulate(b, s, txn) == switchType(s, txn.Type, parseAmount(b, txn))

RECURSIVE RangeLoop(_, _, _, _)
RangeLoop(b, s, txns, i) ==
    IF i > Len(txns) THEN s
    ELSE RangeLoop(b, Accumulate(b, s, txns[i]), txns, i + 1)

\* Faulty variant of NetLiquidity: fees are offset against payments and transfers.
NetLiquidity_feesOffset(s) == fadd(fadd(s.PaymentsSum, s.TransfersSum), 0 - s.FeesSum)

\* stats.PaymentsSum + stats.TransfersSum + stats.FeesSum
NetLiquidity(s) == fadd(fadd(s.PaymentsSum, s.TransfersSum), s.FeesSum)

\* stats.NetLiquidity = ...
setNetLiquidity(s) == [s EXCEPT !.NetLiquidity = NetLiquidity(s)]

calculateSummary(b, txns) ==
    setNetLiquidity(RangeLoop(b, [ZeroStats EXCEPT !.TotalTransactions = Len(txns)],
                              txns, 1))

(***************************************************************************)
(* Inputs of calculateSummary                                              *)
(***************************************************************************)
\* Amount strings as they may stand in a CSV file.
AmountStrings ==
    { <<"5">>,                \* 5
      <<".", "1", "5">>,      \* .15
      <<"-", "5">>,           \* -5
      <<"a", "b", "c">>,      \* no number at all
      <<"1", "2", "a">> }     \* a number followed by text

\* A Type outside the three constants (TransactionType is a string type).
OtherType == "Refund"

AnyTypes == TransactionTypes \cup {OtherType}

\* The transaction list of the rows f (each an <<amount, type>> pair); IDs are
\* T1, T2, ... in list order.
MkTxns(f) ==
    [i \in DOMAIN f |-> [TransactionID |-> i, Amount |-> f[i][1], Type |-> f[i][2]]]

(***************************************************************************)
(* Paths (path/filepath): a path is the sequence of its elements, an       *)
(* absolute one starting with "/".                                         *)
(***************************************************************************)
IsAbs(p) == Len(p) > 0 /\ p[1] = "/"

\* filepath.Clean, element by element: "." is dropped, ".." removes the
\* element before it (at the root it is dropped, at the start of a relative
\* path it stays); the empty path cleans to ".".
RECURSIVE CleanFrom(_, _, _)
CleanFrom(out, p, i) ==
    IF i > Len(p) THEN out
    ELSE LET e == p[i]
         IN  IF e = "." THEN CleanFrom(out, p, i + 1)
             ELSE IF e = ".."
                  THEN IF Len(out) > 0 /\ out[Len(out)] \notin {"/", ".."}
                       THEN CleanFrom(SubSeq(out, 1, Len(out) - 1), p, i + 1)
                       ELSE IF Len(out) > 0 /\ out[Len(out)] = "/"
                            THEN CleanFrom(out, p, i + 1)
                            ELSE CleanFrom(Append(out, e), p, i + 1)
                  ELSE CleanFrom(Append(out, e), p, i + 1)

filepathClean(p) ==
    LET c == CleanFrom(<<>>, p, 1)
    IN  IF c = <<>> THEN <<".">> ELSE c

\* filepath.Join(a, b): empty elements are ignored, the result is cleaned.
filepathJoin(a, b) == filepathClean(a \o b)

\* filepath.Abs(p) in working directory wd.
filepathAbs(wd, p) == IF IsAbs(p) THEN filepathClean(p) ELSE filepathJoin(wd, p)

\* The file the operating system opens for path p in working directory wd.
Resolve(wd, p) == filepathAbs(wd, p)

\* os.Getenv: the value, "" (here <<>>) when unset.
Getenv(e, name) == e[name]

\* getEnvOrDefault.  bookkeeping.go cleans and makes absolute both the value
\* and the default; part_000 makes only the default absolute and returns a
\* set value as it stands.
getEnvOrDefault(b, wd, e, name, defaultValue) ==
    LET value == Getenv(e, name)
    IN  IF b = "bookkeeping.go"
        THEN IF value = <<>>
             THEN filepathAbs(wd, filepathClean(defaultValue))
             ELSE filepathAbs(wd, filepathClean(value))
        ELSE IF value = <<>>
             THEN filepathAbs(wd, defaultValue)
             ELSE value

LedgerFileName == "FK_MASTER_LEDGER.md"

(***************************************************************************)
(* The vault package (its code is not among the sources): modelled from    *)
(* the design document.                                                    *)
(***************************************************************************)
\* vault.NewTransactionProcessor(vaultDir, ledgerDir): a processor bound to
\* both paths, or an error when a path is unusable (failed says so).
NewTransactionProcessor(vaultDir, ledgerDir, failed) ==
    [vaultDir |-> vaultDir, ledgerDir |-> ledgerDir, err |-> failed]

\* processor.ReadCSVFiles(): every row of every CSV file, in file then row
\* order, or an error when the directory cannot be listed.
ReadCSVFiles(v) ==
    IF v.status = "ok" THEN [transactions |-> v.rows, err |-> FALSE]
    ELSE [transactions |-> <<>>, err |-> TRUE]

\* processor.CategorizeTransactions(transactions): TransactionType -> the
\* transactions of that type in list order; a type with none has no entry.
CategorizeTransactions(txns) ==
    [ty \in {txns[i].Type : i \in DOMAIN txns} |->
        SelectSeq(txns, LAMBDA x : x.Type = ty)]

\* categorized[key] on a Go map: the zero value (a nil slice) for a missing key.
MapIndex(m, key) == IF key \in DOMAIN m THEN m[key] ELSE <<>>

\* A markdown document: its heading and the transactions it lists.
Document(heading, rows) == [heading |-> heading, rows |-> rows]

\* The snapshot document vault.Run derives from the vault's rows.
Snapshot(rows) == Document("# FK Master Ledger", rows)

\* vault.Run(vaultDir, ledgerDir): reads the vault and replaces
\* <ledgerDir>/FK_MASTER_LEDGER.md; an error, and no write, when the vault
\* cannot be read or the ledger directory cannot be written (writeFailed).
Run(wd, v, files, ledgerDir, writeFailed) ==
    LET rd   == ReadCSVFiles(v)
        path == filepathJoin(Resolve(wd, ledgerDir), <<LedgerFileName>>)
    IN  IF rd.err \/ writeFailed
        THEN [err |-> TRUE, fs |-> files]
        ELSE [err |-> FALSE,
              fs  |-> [q \in DOMAIN files \cup {path} |->
                          IF q = path THEN Snapshot(rd.transactions) ELSE files[q]]]

(***************************************************************************)
(* Responses                                                               *)
(***************************************************************************)
NoData == [none |-> TRUE]

\* What a handler did with one request: the response written (status, kind of
\* body, message, data) and, for the properties, the calls it made (calls), the
\* calls that returned an error (errs), the file LedgerHandler opened
\* (readPath) and what opening it returned (readErr).
Response(status, kind, msg, data, calls, errs) ==
    [ status |-> status, kind |-> kind, msg |-> msg, data |-> data,
      calls |-> calls, errs |-> errs, readPath |-> <<>>, readErr |-> "" ]

\* http.Error(w, msg, code)
httpError(msg, code, calls, errs) == Response(code, "text", msg, NoData, calls, errs)

StatusOK == 200
StatusMethodNotAllowed == 405
StatusInternalServerError == 500

MethodGet == "GET"
MethodPost == "POST"
Methods == {MethodGet, MethodPost}

\* renderError of part_000: WriteHeader(500) and an HTML error page.
renderError(msg, calls, errs) ==
    Response(StatusInternalServerError, "errorPage", msg, NoData, calls, errs)

\* Faulty variant of transactionData: "Fees" is filled from the transfers.
transactionData_feesFromTransfers(categorized) ==
    [ Payments  |-> MapIndex(categorized, PaymentTransaction),
      Transfers |-> MapIndex(categorized, TransferTransaction),
      Fees      |-> MapIndex(categorized, TransferTransaction) ]

\* The map the two read handlers build from the categorized transactions.
transactionData(categorized) ==
    [ Payments  |-> MapIndex(categorized, PaymentTransaction),
      Transfers |-> MapIndex(categorized, TransferTransaction),
      Fees      |-> MapIndex(categorized, FeeTransaction) ]

(***************************************************************************)
(* BookkeepingHandler, BookkeepingAPIHandler                               *)
(***************************************************************************)
\* if r.Method != http.MethodGet
ReadMethodAllowed(method) == method = MethodGet

\* The failure page of BookkeepingHandler: http.Error in bookkeeping.go,
\* renderError in part_000.
bookkeepingError(b, msg, calls, errs) ==
    IF b = "bookkeeping.go"
    THEN httpError(msg, StatusInternalServerError, calls, errs)
    ELSE renderError(msg, calls, errs)

\* BookkeepingHandler on one request.  tmplFailed, procFailed and execFailed
\* say whether loadTemplate, NewTransactionProcessor and ExecuteTemplate fail.
BookkeepingHandler(b, wd, e, v, method, tmplFailed, procFailed, execFailed) ==
    IF ~ReadMethodAllowed(method)
    THEN httpError("Method not allowed", StatusMethodNotAllowed, <<>>, {})
    ELSE IF tmplFailed
    THEN httpError("Failed to load template", StatusInternalServerError,
                   <<"loadTemplate">>, {"loadTemplate"})
    ELSE
    LET vaultDir  == getEnvOrDefault(b, wd, e, "VAULT_DIR", <<"vault">>)
        ledgerDir == getEnvOrDefault(b, wd, e, "LEDGER_DIR", <<"ledger">>)
        processor == NewTransactionProcessor(vaultDir, ledgerDir, procFailed)
        c1        == <<"loadTemplate", "NewTransactionProcessor">>
    IN  IF processor.err
        THEN bookkeepingError(b, "Failed to initialize transaction processor",
                              c1, {"NewTransactionProcessor"})
        ELSE
        LET rd == ReadCSVFiles(v)
            c2 == Append(c1, "ReadCSVFiles")
        IN  IF rd.err
            THEN bookkeepingError(b, "Failed to read transaction files",
                                  c2, {"ReadCSVFiles"})
            ELSE
            LET categorized == CategorizeTransactions(rd.transactions)
                summary     == calculateSummary(b, rd.transactions)
                data        == [ Transactions |-> transactionData(categorized),
                                 Summary      |-> summary ]
                c3          == c2 \o <<"CategorizeTransactions", "calculateSummary",
                                       "ExecuteTemplate">>
            IN  IF execFailed
                THEN httpError("template error", StatusInternalServerError,
                               c3, {"ExecuteTemplate"})
                ELSE Response(StatusOK, "html", "", data, c3, {})

\* The JSON error envelope {"error": msg} with status 500.
jsonError(msg, calls, errs) ==
    Response(StatusInternalServerError, "jsonError", msg, NoData, calls, errs)

\* Faulty variant of BookkeepingAPIHandler: the error of ReadCSVFiles is not checked,
\* and the (empty) list it returned is reported.
BookkeepingAPIHandler_ignoresReadError(b, wd, e, v, method, procFailed) ==
    IF ~ReadMethodAllowed(method)
    THEN httpError("Method not allowed", StatusMethodNotAllowed, <<>>, {})
    ELSE IF procFailed
    THEN jsonError("Failed to initialize transaction processor",
                   <<"NewTransactionProcessor">>, {"NewTransactionProcessor"})
    ELSE Response(StatusOK, "json", "",
                  [ Transactions |-> transactionData(
                                        CategorizeTransactions(ReadCSVFiles(v).transactions)),
                    Summary      |-> calculateSummary(b, ReadCSVFiles(v).transactions),
                    Count        |-> Len(ReadCSVFiles(v).transactions) ],
                  <<"NewTransactionProcessor", "ReadCSVFiles", "CategorizeTransactions",
                    "calculateSummary">>,
                  IF ReadCSVFiles(v).err THEN {"ReadCSVFiles"} ELSE {})

\* BookkeepingAPIHandler on one request.
BookkeepingAPIHandler(b, wd, e, v, method, procFailed) ==
    IF ~ReadMethodAllowed(method)
    THEN httpError("Method not allowed", StatusMethodNotAllowed, <<>>, {})
    ELSE
    LET vaultDir  == getEnvOrDefault(b, wd, e, "VAULT_DIR", <<"vault">>)
        ledgerDir == getEnvOrDefault(b, wd, e, "LEDGER_DIR", <<"ledger">>)
        processor == NewTransactionProcessor(vaultDir, ledgerDir, procFailed)
        c1        == <<"NewTransactionProcessor">>
    IN  IF processor.err
        THEN jsonError("Failed to initialize transaction processor",
                       c1, {"NewTransactionProcessor"})
        ELSE
        LET rd == ReadCSVFiles(v)
            c2 == Append(c1, "ReadCSVFiles")
        IN  IF rd.err
            THEN jsonError("Failed to read transaction files", c2, {"ReadCSVFiles"})
            ELSE
            LET categorized == CategorizeTransactions(rd.transactions)
                summary     == calculateSummary(b, rd.transactions)
                response    == [ Transactions |-> transactionData(categorized),
                                 Summary      |-> summary,
                                 Count        |-> Len(rd.transactions) ]
            IN  Response(StatusOK, "json", "", response,
                         c2 \o <<"CategorizeTransactions", "calculateSummary">>, {})

(***************************************************************************)
(* ProcessTransactionsHandler                                              *)
(***************************************************************************)
\* Faulty variant of ProcessMethodAllowed: the method check is missing.
ProcessMethodAllowed_any(method) == method \in Methods

\* if r.Method != http.MethodPost
ProcessMethodAllowed(method) == method = MethodPost

\* The ledger directory ProcessTransactionsHandler passes to vault.Run.
processLedgerDir(b, wd, e) == getEnvOrDefault(b, wd, e, "LEDGER_DIR", <<"ledger">>)

\* The response once vault.Run has returned.
processResponse(runErr) ==
    IF runErr
    THEN Response(StatusInternalServerError, "json", "Failed to process transactions",
                  [status |-> "error"], <<"Run">>, {"Run"})
    ELSE Response(StatusOK, "json", "Transactions processed successfully",
                  [status |-> "success"], <<"Run">>, {})

(***************************************************************************)
(* LedgerHandler                                                           *)
(***************************************************************************)
Placeholder == Document("# No Ledger Available", <<>>)

\* The nil content os.ReadFile returns with an error.
NoContent == Document("", <<>>)

\* os.ReadFile(path): the content, or the error: ENOENT when there is no such
\* file, EACCES when the file is there and cannot be read (denied).
ReadFile(wd, files, path, denied) ==
    LET q == Resolve(wd, path)
    IN  IF q \notin DOMAIN files THEN [content |-> NoContent, err |-> "ENOENT", path |-> q]
        ELSE IF denied THEN [content |-> NoContent, err |-> "EACCES", path |-> q]
        ELSE [content |-> files[q], err |-> "", path |-> q]

\* markdownToHTML: the escaped text inside the ledger-content div.
markdownToHTML(md) == [div |-> "ledger-content", escaped |-> md]

\* ledgerPath := filepath.Join("ledger", "FK_MASTER_LEDGER.md")
ledgerPath == filepathJoin(<<"ledger">>, <<LedgerFileName>>)

\* LedgerHandler on one request (any method): every error of ReadFile is
\* answered with the placeholder text.
LedgerHandler(wd, files, denied, tmplFailed) ==
    LET rd      == ReadFile(wd, files, ledgerPath, denied)
        content == IF rd.err # "" THEN Placeholder ELSE rd.content
        errs    == IF rd.err # "" THEN {"ReadFile"} ELSE {}
        resp    == IF tmplFailed
                   THEN httpError("template error", StatusInternalServerError,
                                  <<"ReadFile", "loadTemplate">>,
                                  errs \cup {"loadTemplate"})
                   ELSE Response(StatusOK, "html", "",
                                 [LedgerContent |-> markdownToHTML(content)],
                                 <<"ReadFile", "loadTemplate", "ExecuteTemplate">>, errs)
    IN  [resp EXCEPT !.readPath = rd.path, !.readErr = rd.err]

(***************************************************************************)
(* Requests, Init, actions                                                 *)
(***************************************************************************)
Reqs == 1..MaxReqs

NoResponse == Response(0, "", "", NoData, <<>>, {})

\* A slot of the server: "idle", or "inRun" while a request that
\* ProcessTransactionsHandler has handed to vault.Run waits for it to return
\* (net/http serves every request on a goroutine of its own).
IdleRequest == [pc |-> "idle", method |-> "", ledgerDir |-> <<>>]

\* An answered request; sawRun is lastRun as LedgerHandler found it.
Answered(handler, method, resp, sawRun) ==
    [handler |-> handler, method |-> method, resp |-> resp, sawRun |-> sawRun]

NoRequest == Answered("", "", NoResponse, <<>>)

InitHandlersIdle ==
    /\ cwd = <<"/", "app">>
    /\ env = [n \in {"VAULT_DIR", "LEDGER_DIR"} |-> <<>>]
    /\ vault = [status |-> "ok", rows |-> <<>>]
    /\ fs = [q \in {} |-> NoContent]
    /\ reqs = [r \in Reqs |-> IdleRequest]
    /\ last = NoRequest
    /\ lastRun = <<>>

InitSummary ==
    /\ build \in Builds
    /\ \E k \in 0..MaxTxns : \E f \in [1..k -> AmountStrings \X AnyTypes] :
          transactions = MkTxns(f)
    /\ stats = ZeroStats
    /\ pc = "call"
    /\ InitHandlersIdle

CallCalculateSummary ==
    /\ pc = "call"
    /\ stats' = calculateSummary(build, transactions)
    /\ pc' = "done"
    /\ UNCHANGED <<build, transactions>>
    /\ UNCHANGED handlerVars

NextSummary == CallCalculateSummary

SpecSummary == InitSummary /\ [][NextSummary]_vars

\* The working directory and the LEDGER_DIR settings the server is started with.
WorkDirs == { <<"/", "app">> }

LedgerDirSettings ==
    { <<>>,                                    \* unset
      <<"ledger">>,                            \* the default, spelled out
      <<"/", "app", "..", "app", "ledger">>,   \* /app/ledger, not clean
      <<"/", "data", "ledger">> }              \* another directory

\* Amount strings in the vault's CSV files.
VaultAmounts == { <<"1", ".", "5">> }

\* The call of a handler that fails, if one does: a handler returns at the
\* first failure, so one per request covers every outcome.
Faults == {"none", "loadTemplate", "NewTransactionProcessor", "ExecuteTemplate"}

Init ==
    /\ build \in Builds
    /\ transactions = <<>>
    /\ stats = ZeroStats
    /\ pc = "idle"
    /\ cwd \in WorkDirs
    /\ \E d \in LedgerDirSettings : env = [VAULT_DIR |-> <<>>, LEDGER_DIR |-> d]
    /\ \E ok \in BOOLEAN : \E k \in 0..MaxVault :
          \E f \in [1..k -> VaultAmounts \X TransactionTypes] :
             /\ ~ok => k = 0
             /\ vault = [status |-> IF ok THEN "ok" ELSE "missing", rows |-> MkTxns(f)]
    /\ fs = [q \in {} |-> NoContent]
    /\ reqs = [r \in Reqs |-> IdleRequest]
    /\ last = NoRequest
    /\ lastRun = <<>>

\* A request to BookkeepingHandler is served.
ServeBookkeeping ==
    /\ \E method \in Methods, fault \in Faults :
          last' = Answered("BookkeepingHandler", method,
                           BookkeepingHandler(build, cwd, env, vault, method,
                                              fault = "loadTemplate",
                                              fault = "NewTransactionProcessor",
                                              fault = "ExecuteTemplate"),
                           <<>>)
    /\ UNCHANGED <<build, cwd, env, vault, fs, reqs, lastRun>>
    /\ UNCHANGED summaryVars

\* A request to BookkeepingAPIHandler is served.
ServeBookkeepingAPI ==
    /\ \E method \in Methods, procFailed \in BOOLEAN :
          last' = Answered("BookkeepingAPIHandler", method,
                           BookkeepingAPIHandler(build, cwd, env, vault, method,
                                                 procFailed),
                           <<>>)
    /\ UNCHANGED <<build, cwd, env, vault, fs, reqs, lastRun>>
    /\ UNCHANGED summaryVars

\* A request to ProcessTransactionsHandler with a method other than POST is
\* refused.
ProcessRefuse ==
    /\ \E method \in Methods :
          /\ ~ProcessMethodAllowed(method)
          /\ last' = Answered("ProcessTransactionsHandler", method,
                              httpError("Method not allowed", StatusMethodNotAllowed,
                                        <<>>, {}),
                              <<>>)
    /\ UNCHANGED <<build, cwd, env, vault, fs, reqs, lastRun>>
    /\ UNCHANGED summaryVars

\* A request to ProcessTransactionsHandler passes the method check: the
\* handler resolves the directories and calls vault.Run.  Nothing keeps a
\* second request from doing the same while the first is inside vault.Run.
ProcessCall(r) ==
    /\ reqs[r].pc = "idle"
    /\ \E method \in Methods :
          /\ ProcessMethodAllowed(method)
          /\ reqs' = [reqs EXCEPT ![r] =
                        [ pc |-> "inRun", method |-> method,
                          ledgerDir |-> processLedgerDir(build, cwd, env) ]]
    /\ UNCHANGED <<build, cwd, env, vault, fs, last, lastRun>>
    /\ UNCHANGED summaryVars

\* vault.Run returns to ProcessTransactionsHandler, which answers.
ProcessReturn(r) ==
    /\ reqs[r].pc = "inRun"
    /\ \E writeFailed \in BOOLEAN :
          LET ran == Run(cwd, vault, fs, reqs[r].ledgerDir, writeFailed)
          IN  /\ fs' = ran.fs
              /\ lastRun' = IF ran.err THEN lastRun ELSE Resolve(cwd, reqs[r].ledgerDir)
              /\ last' = Answered("ProcessTransactionsHandler", reqs[r].method,
                                  processResponse(ran.err), <<>>)
    /\ reqs' = [reqs EXCEPT ![r] = IdleRequest]
    /\ UNCHANGED <<build, cwd, env, vault>>
    /\ UNCHANGED summaryVars

\* A request to LedgerHandler is served.
ServeLedger ==
    /\ \E method \in Methods, denied \in BOOLEAN, tmplFailed \in BOOLEAN :
          last' = Answered("LedgerHandler", method,
                           LedgerHandler(cwd, fs, denied, tmplFailed), lastRun)
    /\ UNCHANGED <<build, cwd, env, vault, fs, reqs, lastRun>>
    /\ UNCHANGED summaryVars

Next ==
    \/ ServeBookkeeping
    \/ ServeBookkeepingAPI
    \/ ProcessRefuse
    \/ \E r \in Reqs : ProcessCall(r)
    \/ \E r \in Reqs : ProcessReturn(r)
    \/ ServeLedger

Spec == Init /\ [][Next]_vars

(***************************************************************************)
(* Properties of calculateSummary (checked under SpecSummary)              *)
(***************************************************************************)
Recognized(txn) == txn.Type \in TransactionTypes

CountOf(txns, ty) == Cardinality({i \in DOMAIN txns : txns[i].Type = ty})

CountsSum(s) == s.TotalPayments + s.TotalTransfers + s.TotalFees

\* The amount a string stands for: what Sscanf stores, 0 when it stores nothing.
Parsed == [a \in AmountStrings |-> IF Sscanf(a).n = 1 THEN Sscanf(a).amount ELSE 0]

ParsedOrZero(a) == Parsed[a]

\* The parsed amounts of the transactions of type ty, in list order.
RECURSIVE AmountsOf(_, _)
AmountsOf(txns, ty) ==
    IF txns = <<>> THEN <<>>
    ELSE IF Head(txns).Type = ty
         THEN <<ParsedOrZero(Head(txns).Amount)>> \o AmountsOf(Tail(txns), ty)
         ELSE AmountsOf(Tail(txns), ty)

\* ((0 + a1) + a2) + ... on float64.
RECURSIVE FoldAdd(_)
FoldAdd(as) ==
    IF as = <<>> THEN 0
    ELSE fadd(FoldAdd(SubSeq(as, 1, Len(as) - 1)), as[Len(as)])

\* a1 + a2 + ... on the reals (in units of 1/Scale).
RECURSIVE ExactSum(_)
ExactSum(as) == IF as = <<>> THEN 0 ELSE as[1] + ExactSum(Tail(as))

\* No partial sum of as needs more than Precision bits.
NoRounding(as) ==
    \A k \in 1..Len(as) : BitLen(AbsInt(ExactSum(SubSeq(as, 1, k)))) <= Precision

\* The reorderings of a list.
Reorderings(txns) ==
    { [i \in DOMAIN txns |-> txns[f[i]]] :
        f \in { g \in [DOMAIN txns -> DOMAIN txns] :
                  \A i, j \in DOMAIN txns : i # j => g[i] # g[j] } }

SameCounts(s, t) ==
    /\ s.TotalTransactions = t.TotalTransactions
    /\ s.TotalPayments = t.TotalPayments
    /\ s.TotalTransfers = t.TotalTransfers
    /\ s.TotalFees = t.TotalFees

SameSums(s, t) ==
    /\ s.PaymentsSum = t.PaymentsSum
    /\ s.TransfersSum = t.TransfersSum
    /\ s.FeesSum = t.FeesSum

CountsRight ==
    /\ stats.TotalTransactions = Len(transactions)
    /\ stats.TotalPayments = CountOf(transactions, PaymentTransaction)
    /\ stats.TotalTransfers = CountOf(transactions, TransferTransaction)
    /\ stats.TotalFees = CountOf(transactions, FeeTransaction)

\* C1 as stated: for every list, also one holding a transaction of another
\* type, the three per-type counts sum to TotalTransactions.
C1_CountsSumToTotal ==
    pc = "done" => CountsSum(stats) = stats.TotalTransactions

\* C1 as amended: TotalTransactions is the length of the list, the three
\* per-type counts sum to the number of transactions whose Type is Payment,
\* Transfer or Fee, and so to TotalTransactions exactly when every
\* transaction has one of these types.
C1_CountsSumToRecognized ==
    pc = "done" =>
        /\ stats.TotalTransactions = Len(transactions)
        /\ CountsSum(stats) =
              Cardinality({i \in DOMAIN transactions : Recognized(transactions[i])})
        /\ (CountsSum(stats) = stats.TotalTransactions)
              <=> (\A i \in DOMAIN transactions : Recognized(transactions[i]))

C1_Witness ==
    /\ pc = "done"
    /\ \E i, j \in DOMAIN transactions :
          /\ ~Recognized(transactions[i])
          /\ transactions[j].Type = FeeTransaction
    /\ CountsSum(stats) = stats.TotalTransactions - 1

\* strconv.ParseFloat accepts the whole string: it is a number.
IsNumber(a) ==
    /\ TokenValid(floatToken(a))
    /\ floatToken(a).start = 1
    /\ floatToken(a).stop = Len(a) + 1

\* The list with every Amount that is not a number replaced by "0".
NonNumbersAsZero(txns) ==
    [i \in DOMAIN txns |->
        IF IsNumber(txns[i].Amount) THEN txns[i] ELSE [txns[i] EXCEPT !.Amount = <<"0">>]]

\* C2 as stated: a transaction whose Amount cannot be parsed as a number is
\* counted, adds exactly 0 to its type's sum, and the rest of the list is
\* aggregated as if its amount were 0: the result is the result for the list
\* with "0" in place of every Amount that is not a number.
C2_NonNumberCountsAsZero ==
    pc = "done" =>
        /\ CountsRight
        /\ stats = calculateSummary(build, NonNumbersAsZero(transactions))

\* What holds instead: an Amount on which Sscanf fails (no leading number at
\* all) is counted and adds 0; an Amount with a leading number and text after
\* it is taken at the value of the leading number.
ScanFailuresAsZero(txns) ==
    [i \in DOMAIN txns |->
        IF Sscanf(txns[i].Amount).n = 1 THEN txns[i]
        ELSE [txns[i] EXCEPT !.Amount = <<"0">>]]

ScanFailureCountsAsZero ==
    pc = "done" =>
        /\ CountsRight
        /\ stats = calculateSummary(build, ScanFailuresAsZero(transactions))

\* C3: NetLiquidity is PaymentsSum + TransfersSum + FeesSum (the float64 sum,
\* in this order), each sum entering with its own sign, and the three sums are
\* the accumulated amounts of the three types.
C3_NetLiquidityIsSum ==
    pc = "done" =>
        /\ stats.NetLiquidity =
              fadd(fadd(stats.PaymentsSum, stats.TransfersSum), stats.FeesSum)
        /\ stats.NetLiquidity =
              fadd(fadd(FoldAdd(AmountsOf(transactions, PaymentTransaction)),
                        FoldAdd(AmountsOf(transactions, TransferTransaction))),
                   FoldAdd(AmountsOf(transactions, FeeTransaction)))

C3_Witness ==
    /\ pc = "done"
    /\ stats.PaymentsSum > 0
    /\ stats.TransfersSum > 0
    /\ stats.FeesSum < 0
    /\ stats.NetLiquidity = stats.PaymentsSum + stats.TransfersSum + stats.FeesSum

ReadHandlers == {"BookkeepingHandler", "BookkeepingAPIHandler"}

Called(resp) == {resp.calls[i] : i \in DOMAIN resp.calls}

\* The response is an explicit failure that carries no transaction data.
ExplicitFailure(handler, resp) ==
    /\ resp.status = StatusInternalServerError
    /\ resp.kind \in (IF handler = "BookkeepingAPIHandler"
                      THEN {"jsonError"} ELSE {"text", "errorPage"})
    /\ resp.data = NoData
    /\ Called(resp) \cap {"CategorizeTransactions", "calculateSummary",
                          "ExecuteTemplate"} = {}

\* C5: when NewTransactionProcessor or ReadCSVFiles returns an error (the
\* latter whenever the handler reads a vault that cannot be read), the two
\* read handlers answer 500 with an error page or a JSON error envelope and
\* return without categorizing, summarizing or emitting transactions.
C5_ReadFailureIsExplicit ==
    last.handler \in ReadHandlers =>
        /\ (last.resp.errs \cap {"NewTransactionProcessor", "ReadCSVFiles"} # {})
              => ExplicitFailure(last.handler, last.resp)
        /\ (vault.status # "ok" /\ "ReadCSVFiles" \in Called(last.resp))
              => ExplicitFailure(last.handler, last.resp)

C5_Witness ==
    /\ last.handler = "BookkeepingAPIHandler"
    /\ vault.status # "ok"
    /\ "ReadCSVFiles" \in last.resp.errs
    /\ last.resp.status = StatusInternalServerError

\* C6 as stated: LedgerHandler shows the placeholder exactly when the snapshot
\* file does not exist, and answers any other failure to read it with a
\* failure, not with the placeholder.
C6_PlaceholderOnlyWhenAbsent ==
    (last.handler = "LedgerHandler" /\ "loadTemplate" \notin last.resp.errs) =>
        /\ (last.resp.data.LedgerContent = markdownToHTML(Placeholder))
              <=> (last.resp.readErr = "ENOENT")
        /\ last.resp.readErr \notin {"", "ENOENT"}
              => last.resp.status = StatusInternalServerError

\* C7 as stated: no two requests are inside vault.Run for the same ledger
\* directory at the same time.
C7_RunIsSerialized ==
    \A r1, r2 \in Reqs :
        (r1 # r2 /\ reqs[r1].pc = "inRun" /\ reqs[r2].pc = "inRun")
            => Resolve(cwd, reqs[r1].ledgerDir) # Resolve(cwd, reqs[r2].ledgerDir)

RECURSIVE Increasing(_)
Increasing(txns) ==
    Len(txns) <= 1 \/ (txns[1].TransactionID < txns[2].TransactionID
                        /\ Increasing(Tail(txns)))

\* C8: in a successful response of BookkeepingAPIHandler the lists under
\* Payments, Transfers and Fees hold the transactions of their type, together
\* hold every transaction ReadCSVFiles returned exactly once (their lengths
\* sum to Count), and each keeps the source order.
C8_ListsPartitionTransactions ==
    (last.handler = "BookkeepingAPIHandler" /\ last.resp.status = StatusOK) =>
        LET d   == last.resp.data.Transactions
            all == d.Payments \o d.Transfers \o d.Fees
        IN  /\ last.resp.data.Count = Len(vault.rows)
            /\ Len(all) = last.resp.data.Count
            /\ \A i \in DOMAIN vault.rows :
                  Cardinality({j \in DOMAIN all : all[j] = vault.rows[i]}) = 1
            /\ \A j \in DOMAIN d.Payments : d.Payments[j].Type = PaymentTransaction
            /\ \A j \in DOMAIN d.Transfers : d.Transfers[j].Type = TransferTransaction
            /\ \A j \in DOMAIN d.Fees : d.Fees[j].Type = FeeTransaction
            /\ Increasing(d.Payments)
            /\ Increasing(d.Transfers)
            /\ Increasing(d.Fees)

C8_Witness ==
    /\ last.handler = "BookkeepingAPIHandler"
    /\ last.resp.status = StatusOK
    /\ last.resp.data.Count = MaxVault
    /\ Len(last.resp.data.Transactions.Fees) >= 1
    /\ Len(last.resp.data.Transactions.Transfers) >= 1

\* C9 as stated: once a refresh has succeeded, the file LedgerHandler reads is
\* FK_MASTER_LEDGER.md under the ledger directory that
\* ProcessTransactionsHandler passed to vault.Run.
C9_LedgerReadsWhatRunWrote ==
    (last.handler = "LedgerHandler" /\ last.sawRun # <<>>) =>
        last.resp.readPath = filepathJoin(last.sawRun, <<LedgerFileName>>)

\* What every answered request and every request inside vault.Run satisfies:
\* a disallowed method was answered 405 before any call was made, and only a
\* POST is inside vault.Run.
MethodsGate ==
    /\ (last.handler \in ReadHandlers /\ last.method # MethodGet)
          => (last.resp.status = StatusMethodNotAllowed /\ last.resp.calls = <<>>)
    /\ (last.handler = "ProcessTransactionsHandler" /\ last.method # MethodPost)
          => (last.resp.status = StatusMethodNotAllowed /\ last.resp.calls = <<>>)
    /\ \A r \in Reqs : reqs[r].pc = "inRun" => reqs[r].method = MethodPost

\* A step that changes a snapshot file is the return of vault.Run to a POST
\* request of ProcessTransactionsHandler; no step changes the vault.
OnlyPostWrites ==
    (fs' # fs \/ vault' # vault) =>
        /\ vault' = vault
        /\ \E r \in Reqs :
              /\ reqs[r].pc = "inRun"
              /\ reqs[r].method = MethodPost
              /\ reqs'[r].pc = "idle"
        /\ last'.handler = "ProcessTransactionsHandler"
        /\ last'.method = MethodPost
        /\ "Run" \in Called(last'.resp)

\* C10: the snapshot is modified only by a POST request to
\* ProcessTransactionsHandler; the three other handlers leave vault and
\* snapshot alone for every method; a disallowed method is answered 405
\* without reading the vault or calling vault.Run.
C10_OnlyPostRefreshWrites == [][OnlyPostWrites /\ MethodsGate']_vars

C10_Witness ==
    /\ last.handler = "ProcessTransactionsHandler"
    /\ last.method = MethodGet
    /\ last.resp.status = StatusMethodNotAllowed
    /\ DOMAIN fs # {}

====
